---- MODULE Spec2Model ----
(***************************************************************************)
(* Model of src/server.js: the outbound message queue, its drain loop      *)
(* (processMessageQueue), the WhatsApp session events that gate it, the    *)
(* HTTP handlers that enqueue, clear and reset, and the cron tick.         *)
(*                                                                         *)
(* Node runs every handler to completion, so one action is one callback    *)
(* run from its start to its first await (or its end).  The drain loop is  *)
(* an async function: it is suspended in `await client.sendMessage` (pc    *)
(* "sending") or in the pacing `await setTimeout` (pc "pacing").           *)
(***************************************************************************)
EXTENDS Integers, Sequences, FiniteSets, TLC

\* ---- bounds of the model ----
MaxMsgs == 3
MaxTimers == 1
MaxDrains == 2
MaxQrPending == 1
MaxDigits == 13
MaxDays == 4

\* ---- values ----
Undefined == "undefined"
\* an absent number: phone numbers are sequences of characters, and so is this one
NoNumber == <<Undefined>>
Null == "null"
QrUrl == "data:image/png"
Text == "text"
EventBody == "*EVENT ASSIGNMENT*"
TaskBody == "*TASK ASSIGNMENT*"
PhoneA == <<"9", "8", "7", "6", "5", "4", "3", "2", "1", "0">>
DigitChars == {"0", "1", "2", "3", "4", "5", "6", "7", "8", "9"}
NoMsg == [id |-> 0, number |-> NoNumber, message |-> Undefined]
\* the lengths of the lists a request carries
BatchLens == {0, 1, 2}
Statuses == {"initializing", "qr_ready", "authenticated", "ready",
             "auth_failed", "disconnected", "resetting"}

VARIABLES
  clientLive,        \* the instance `client` refers to can still emit events
  staleClients,      \* an earlier instance, no longer `client`, still has its handlers
  reinitTimers,      \* pending setTimeout(initializeClient) timers
  connectionStatus,
  isClientReady,
  qrCodeData,
  qrPending,         \* QRCode.toDataURL callbacks not yet run
  messageQueue,
  isProcessingQueue,
  drains,            \* executions of processMessageQueue: pc, messageData, burst
  nextId,            \* the next fresh message id (uuidv4)
  sendLog,           \* the calls of client.sendMessage, in order
  queuingStatus,     \* the HTTP status of the last response of a queuing endpoint
  lastOp,            \* observer: the last session operation (event, reset, timer)
  cleared,           \* observer: the ids clear-queue has removed
  call               \* a call of a pure function: its input and its result

vars == <<clientLive, staleClients, reinitTimers, connectionStatus, isClientReady, qrCodeData,
          qrPending, messageQueue, isProcessingQueue, drains, nextId, sendLog,
          queuingStatus, lastOp, cleared, call>>

\* what the observers record; a specification that does not observe leaves them alone
obsVars == <<lastOp, cleared, call>>
NoOp == [kind |-> "none", src |-> "none", status |-> 0]
NoCall == [fn |-> "none"]

sessionVars == <<clientLive, staleClients, reinitTimers, connectionStatus, isClientReady,
                 qrCodeData, qrPending>>
queueVars == <<messageQueue, isProcessingQueue, drains, sendLog>>

IdleDrain == [pc |-> "idle", msg |-> NoMsg, burst |-> 0]

\* ---- formatPhoneNumber ----
IsDigit(c) == c \in DigitChars

\* formatPhoneNumber without the replace(/\D/g, '') of line 77
formatPhoneNumberUnstripped(phone) ==
  LET n == Len(phone)
  IN IF n = 12 /\ phone[1] = "9" /\ phone[2] = "1" THEN phone
     ELSE IF n = 10 THEN <<"9", "1">> \o phone
     ELSE IF n >= 10 THEN <<"9", "1">> \o SubSeq(phone, n - 9, n)
     ELSE phone

\* formatPhoneNumber that prefixes every number of 10 digits or more, with no
\* test for a prefix already there and no slice(-10)
formatPhoneNumberPrefixAll(phone) ==
  LET digits == SelectSeq(phone, IsDigit)
  IN IF Len(digits) >= 10 THEN <<"9", "1">> \o digits ELSE digits

formatPhoneNumber(phone) ==
  LET digits == SelectSeq(phone, IsDigit)
      n == Len(digits)
  IN IF n = 12 /\ digits[1] = "9" /\ digits[2] = "1" THEN digits
     ELSE IF n = 10 THEN <<"9", "1">> \o digits
     ELSE IF n >= 10 THEN <<"9", "1">> \o SubSeq(digits, n - 9, n)
     ELSE digits

\* formatPhoneNumber(undefined) throws a TypeError (undefined.replace), inside the try
FormatThrows(m) == m.number = NoNumber

\* ---- processMessageQueue ----
\* line 37: the guard that returns without starting a loop
DrainGuardNoFlag(q) == Len(q) = 0 \/ ~isClientReady
DrainGuard(q) == isProcessingQueue \/ Len(q) = 0 \/ ~isClientReady

\* line 44: the loop condition
LoopConditionNoReady(q) == Len(q) > 0
LoopCondition(q) == Len(q) > 0 /\ isClientReady

\* line 71: the flag once the loop has exited
AfterLoopKeep(flag) == flag
AfterLoop(flag) == FALSE

\* lines 61-68: what the catch block leaves in the queue (nothing is re-appended)
AfterCatchRequeue(q, m) == IF m.number = NoNumber THEN q ELSE Append(q, m)
AfterCatch(q, m) == q

\* lines 44-50 and 61-68, run to the next await or to the loop's exit: entries
\* whose number makes formatPhoneNumber throw are caught and dropped on the way
RECURSIVE DrainLoop(_)
DrainLoop(q) ==
  IF LoopCondition(q)
  THEN LET m == Head(q)
       IN IF FormatThrows(m)
          THEN DrainLoop(AfterCatch(Tail(q), m))
          ELSE [queue |-> Tail(q), pc |-> "sending", msg |-> m]
  ELSE [queue |-> q, pc |-> "idle", msg |-> NoMsg]

\* the loop of execution d from its condition check, the queue being q
RunLoop(d, q, burst, flag) ==
  LET r == DrainLoop(q)
  IN /\ messageQueue' = r.queue
     /\ drains' = [drains EXCEPT ![d] =
           IF r.pc = "idle" THEN IdleDrain
           ELSE [pc |-> "sending", msg |-> r.msg, burst |-> burst + 1]]
     /\ isProcessingQueue' = IF r.pc = "idle" THEN AfterLoop(flag) ELSE flag
     /\ sendLog' = IF r.pc = "idle" THEN sendLog
                   ELSE Append(sendLog, [id |-> r.msg.id,
                                         to |-> formatPhoneNumber(r.msg.number)])

FreeSlots == {d \in 1..MaxDrains : drains[d].pc = "idle"}
LowestFree == CHOOSE d \in FreeSlots : \A e \in FreeSlots : d <= e

\* a call of processMessageQueue(), the queue being q
processMessageQueue(q) ==
  IF DrainGuard(q)
  THEN messageQueue' = q /\ UNCHANGED <<isProcessingQueue, drains, sendLog>>
  ELSE FreeSlots # {} /\ RunLoop(LowestFree, q, 0, TRUE)

\* client.sendMessage resolves: lines 51-59
SendResolved(d) ==
  /\ drains[d].pc = "sending"
  /\ drains' = [drains EXCEPT ![d].pc = "pacing"]
  /\ UNCHANGED <<messageQueue, isProcessingQueue, sendLog>>
  /\ UNCHANGED <<sessionVars, nextId, queuingStatus>>

\* a rejection that leaves the loop instead of going back to its condition
SendRejectedAborts(d) ==
  /\ drains[d].pc = "sending"
  /\ drains' = [drains EXCEPT ![d] = IdleDrain]
  /\ isProcessingQueue' = FALSE
  /\ UNCHANGED <<messageQueue, sendLog>>
  /\ UNCHANGED <<sessionVars, nextId, queuingStatus>>

\* client.sendMessage rejects: lines 61-68, then the loop condition
SendRejected(d) ==
  /\ drains[d].pc = "sending"
  /\ RunLoop(d, AfterCatch(messageQueue, drains[d].msg), drains[d].burst,
             isProcessingQueue)
  /\ UNCHANGED <<sessionVars, nextId, queuingStatus>>

\* the pacing timer of line 59 fires, then the loop condition
PacingElapsed(d) ==
  /\ drains[d].pc = "pacing"
  /\ RunLoop(d, messageQueue, 0, isProcessingQueue)
  /\ UNCHANGED <<sessionVars, nextId, queuingStatus>>

\* ---- the session: initializeClient and its event handlers ----
\* the instances whose handlers can run: `client`, or one it replaced
Sources == (IF clientLive THEN {"client"} ELSE {}) \cup
           (IF staleClients THEN {"stale"} ELSE {})

\* lines 85-160: a reinitialization timer fires; `client` is replaced by a new
\* instance, and the one it replaced, if not destroyed, keeps its handlers
InitializeClient ==
  /\ reinitTimers > 0
  /\ reinitTimers' = reinitTimers - 1
  /\ staleClients' = (staleClients \/ clientLive)
  /\ clientLive' = TRUE
  /\ UNCHANGED <<connectionStatus, isClientReady, qrCodeData, qrPending,
                 queueVars, nextId, queuingStatus>>

\* lines 107-128: 'qr', QRCode.toDataURL is started
OnQr(src) ==
  /\ src \in Sources
  /\ qrPending < MaxQrPending
  /\ connectionStatus' = "qr_ready"
  /\ qrPending' = qrPending + 1
  /\ UNCHANGED <<clientLive, staleClients, reinitTimers, isClientReady, qrCodeData,
                 queueVars, nextId, queuingStatus>>

\* lines 120-127: the callback of QRCode.toDataURL
QrRendered(err) ==
  /\ qrPending > 0
  /\ qrPending' = qrPending - 1
  /\ qrCodeData' = IF ~err THEN QrUrl ELSE qrCodeData
  /\ UNCHANGED <<clientLive, staleClients, reinitTimers, connectionStatus,
                 isClientReady, queueVars, nextId, queuingStatus>>

\* lines 130-135: 'ready'
OnReady(src) ==
  /\ src \in Sources
  /\ isClientReady' = TRUE
  /\ connectionStatus' = "ready"
  /\ qrCodeData' = Null
  /\ UNCHANGED <<clientLive, staleClients, reinitTimers, qrPending, queueVars,
                 nextId, queuingStatus>>

\* lines 137-140: 'authenticated'
OnAuthenticated(src) ==
  /\ src \in Sources
  /\ connectionStatus' = "authenticated"
  /\ UNCHANGED <<clientLive, staleClients, reinitTimers, isClientReady, qrCodeData,
                 qrPending, queueVars, nextId, queuingStatus>>

\* lines 142-145: 'auth_failure'
OnAuthFailure(src) ==
  /\ src \in Sources
  /\ connectionStatus' = "auth_failed"
  /\ UNCHANGED <<clientLive, staleClients, reinitTimers, isClientReady, qrCodeData,
                 qrPending, queueVars, nextId, queuingStatus>>

\* 'disconnected' without the setTimeout of lines 153-156
OnDisconnectedNoTimer(src) ==
  /\ src \in Sources
  /\ reinitTimers < MaxTimers
  /\ isClientReady' = FALSE
  /\ connectionStatus' = "disconnected"
  /\ UNCHANGED <<clientLive, staleClients, reinitTimers, qrCodeData, qrPending,
                 queueVars, nextId, queuingStatus>>

\* lines 147-157: 'disconnected', a reconnection is scheduled
OnDisconnected(src) ==
  /\ src \in Sources
  /\ reinitTimers < MaxTimers
  /\ isClientReady' = FALSE
  /\ connectionStatus' = "disconnected"
  /\ reinitTimers' = reinitTimers + 1
  /\ UNCHANGED <<clientLive, staleClients, qrCodeData, qrPending, queueVars,
                 nextId, queuingStatus>>

\* ---- the HTTP handlers ----
\* POST /api/reset without the try/catch of lines 213-217: a throwing
\* client.destroy() ends the handler before the setTimeout
PostResetThrows(destroyed) ==
  /\ reinitTimers < MaxTimers
  /\ qrCodeData' = Null
  /\ isClientReady' = FALSE
  /\ connectionStatus' = "resetting"
  /\ clientLive' = (clientLive /\ ~destroyed)
  /\ reinitTimers' = IF destroyed THEN reinitTimers + 1 ELSE reinitTimers
  /\ UNCHANGED <<staleClients, qrPending, queueVars, nextId, queuingStatus>>

\* lines 203-229: POST /api/reset; client.destroy() ends the instance or throws
PostReset(destroyed) ==
  /\ reinitTimers < MaxTimers
  /\ qrCodeData' = Null
  /\ isClientReady' = FALSE
  /\ connectionStatus' = "resetting"
  /\ clientLive' = (clientLive /\ ~destroyed)
  /\ reinitTimers' = reinitTimers + 1
  /\ UNCHANGED <<staleClients, qrPending, queueVars, nextId, queuingStatus>>

Lists(S) == UNION {[1..k -> S] : k \in BatchLens}

\* request bodies
BulkEntries == [number : {NoNumber, PhoneA}, message : {Undefined, Text}]
BulkBodies == Lists(BulkEntries)
StaffEntries == [mobile_number : {NoNumber, PhoneA}]
StaffBodies == [subject : {Undefined, "given"},
                staff_list : Lists(StaffEntries)]

\* lines 235, 293, 353: the list must be a non-empty array
BadList(l) == Len(l) = 0

\* line 253: an entry of the bulk request that is queued
BulkEntryOkAny(e) == TRUE
BulkEntryOk(e) == e.number # NoNumber /\ e.message # Undefined

\* lines 262-268, 319-327, 378-386: the entries pushed, with fresh ids
Pushed(entries) ==
  [i \in 1..Len(entries) |->
     [id |-> nextId + i - 1, number |-> entries[i].number,
      message |-> entries[i].message]]

\* lines 263, 320, 379: messageQueue.push appends at the tail
PushFront(q, entries) == entries \o q
Push(q, entries) == q \o entries

\* lines 242, 300, 360: the request is refused while the client is not ready
RefusedNever == FALSE
Refused == ~isClientReady

\* the tail shared by the three queuing handlers: push, then processMessageQueue()
Enqueue(entries) ==
  /\ nextId + Len(entries) - 1 <= MaxMsgs
  /\ nextId' = nextId + Len(entries)
  /\ processMessageQueue(Push(messageQueue, Pushed(entries)))
  /\ queuingStatus' = 200

Reject(status) ==
  /\ queuingStatus' = status
  /\ UNCHANGED <<queueVars, nextId>>

\* lines 232-287: POST /api/send-bulk-messages
PostSendBulkMessages(messages) ==
  /\ IF BadList(messages) THEN Reject(400)
     ELSE IF Refused THEN Reject(503)
     ELSE Enqueue(SelectSeq(messages, BulkEntryOk))
  /\ UNCHANGED sessionVars

\* lines 307-313, 367-373: one queue entry per staff member, none is skipped
StaffMessages(staff_list, body) ==
  [i \in 1..Len(staff_list) |->
     [number |-> staff_list[i].mobile_number, message |-> body]]

\* lines 290-347: POST /api/send-event-messages
PostSendEventMessages(req) ==
  /\ IF req.subject = Undefined \/ BadList(req.staff_list) THEN Reject(400)
     ELSE IF Refused THEN Reject(503)
     ELSE Enqueue(StaffMessages(req.staff_list, EventBody))
  /\ UNCHANGED sessionVars

\* lines 350-406: POST /api/send-task-messages
PostSendTaskMessages(req) ==
  /\ IF req.subject = Undefined \/ BadList(req.staff_list) THEN Reject(400)
     ELSE IF Refused THEN Reject(503)
     ELSE Enqueue(StaffMessages(req.staff_list, TaskBody))
  /\ UNCHANGED sessionVars

\* POST /api/clear-queue without the assignment of line 411
PostClearQueueKeeps ==
  /\ messageQueue' = messageQueue
  /\ UNCHANGED <<sessionVars, isProcessingQueue, drains, sendLog, nextId, queuingStatus>>

\* lines 409-417: POST /api/clear-queue
PostClearQueue ==
  /\ messageQueue' = <<>>
  /\ UNCHANGED <<sessionVars, isProcessingQueue, drains, sendLog, nextId, queuingStatus>>

\* line 554: the condition under which the tick calls processMessageQueue
CronDueNever == FALSE
CronDue == Len(messageQueue) > 0 /\ isClientReady /\ ~isProcessingQueue

\* lines 553-558: the cron tick
CronTick ==
  /\ IF CronDue
     THEN processMessageQueue(messageQueue)
     ELSE UNCHANGED queueVars
  /\ UNCHANGED <<sessionVars, nextId, queuingStatus>>

ProgramInit ==
  /\ clientLive = TRUE
  /\ staleClients = FALSE
  /\ reinitTimers = 0
  /\ connectionStatus = "initializing"
  /\ isClientReady = FALSE
  /\ qrCodeData = Null
  /\ qrPending = 0
  /\ messageQueue = <<>>
  /\ isProcessingQueue = FALSE
  /\ drains = [d \in 1..MaxDrains |-> IdleDrain]
  /\ nextId = 1
  /\ sendLog = <<>>
  /\ queuingStatus = 0
  /\ lastOp = NoOp
  /\ cleared = {}

Init == ProgramInit /\ call = NoCall

Next ==
  \/ \E d \in 1..MaxDrains : SendResolved(d) /\ UNCHANGED obsVars
  \/ \E d \in 1..MaxDrains : SendRejected(d) /\ UNCHANGED obsVars
  \/ \E d \in 1..MaxDrains : PacingElapsed(d) /\ UNCHANGED obsVars
  \/ CronTick /\ UNCHANGED obsVars
  \/ \E messages \in BulkBodies : PostSendBulkMessages(messages) /\ UNCHANGED obsVars
  \/ \E req \in StaffBodies : PostSendEventMessages(req) /\ UNCHANGED obsVars
  \/ \E req \in StaffBodies : PostSendTaskMessages(req) /\ UNCHANGED obsVars
  \/ PostClearQueue /\ UNCHANGED obsVars
  \/ \E destroyed \in BOOLEAN : PostReset(destroyed) /\ UNCHANGED obsVars
  \/ InitializeClient /\ UNCHANGED obsVars
  \/ \E src \in {"client", "stale"} : OnQr(src) /\ UNCHANGED obsVars
  \/ \E err \in BOOLEAN : QrRendered(err) /\ UNCHANGED obsVars
  \/ \E src \in {"client", "stale"} : OnReady(src) /\ UNCHANGED obsVars
  \/ \E src \in {"client", "stale"} : OnAuthenticated(src) /\ UNCHANGED obsVars
  \/ \E src \in {"client", "stale"} : OnAuthFailure(src) /\ UNCHANGED obsVars
  \/ \E src \in {"client", "stale"} : OnDisconnected(src) /\ UNCHANGED obsVars

Spec == Init /\ [][Next]_vars

\* The handlers of 'qr', 'authenticated' and 'auth_failure' and the QR callback write
\* connectionStatus, qrCodeData and qrPending only, which no queue code reads:
\* the queue's behaviours are those of the program without them.
QueueNext ==
  \/ \E d \in 1..MaxDrains : SendResolved(d) /\ UNCHANGED obsVars
  \/ \E d \in 1..MaxDrains : SendRejected(d) /\ UNCHANGED obsVars
  \/ \E d \in 1..MaxDrains : PacingElapsed(d) /\ UNCHANGED obsVars
  \/ CronTick /\ UNCHANGED obsVars
  \/ \E messages \in BulkBodies : PostSendBulkMessages(messages) /\ UNCHANGED obsVars
  \/ \E req \in StaffBodies : PostSendEventMessages(req) /\ UNCHANGED obsVars
  \/ \E req \in StaffBodies : PostSendTaskMessages(req) /\ UNCHANGED obsVars
  \/ PostClearQueue /\ UNCHANGED obsVars
  \/ \E destroyed \in BOOLEAN : PostReset(destroyed) /\ UNCHANGED obsVars
  \/ InitializeClient /\ UNCHANGED obsVars
  \/ \E src \in {"client", "stale"} : OnReady(src) /\ UNCHANGED obsVars
  \/ \E src \in {"client", "stale"} : OnDisconnected(src) /\ UNCHANGED obsVars

QueueSpec == Init /\ [][QueueNext]_vars

\* ---- the queue, with the entries a clear-queue request removed on record ----
ObservedClearQueue ==
  /\ PostClearQueue
  /\ cleared' = cleared \cup {messageQueue[i].id : i \in 1..Len(messageQueue)}
  /\ UNCHANGED <<lastOp, call>>

ClearNext ==
  \/ \E d \in 1..MaxDrains : SendResolved(d) /\ UNCHANGED obsVars
  \/ \E d \in 1..MaxDrains : SendRejected(d) /\ UNCHANGED obsVars
  \/ \E d \in 1..MaxDrains : PacingElapsed(d) /\ UNCHANGED obsVars
  \/ CronTick /\ UNCHANGED obsVars
  \/ \E messages \in BulkBodies : PostSendBulkMessages(messages) /\ UNCHANGED obsVars
  \/ \E req \in StaffBodies : PostSendEventMessages(req) /\ UNCHANGED obsVars
  \/ \E req \in StaffBodies : PostSendTaskMessages(req) /\ UNCHANGED obsVars
  \/ ObservedClearQueue
  \/ \E destroyed \in BOOLEAN : PostReset(destroyed) /\ UNCHANGED obsVars
  \/ InitializeClient /\ UNCHANGED obsVars
  \/ \E src \in {"client", "stale"} : OnReady(src) /\ UNCHANGED obsVars
  \/ \E src \in {"client", "stale"} : OnDisconnected(src) /\ UNCHANGED obsVars

ClearSpec == Init /\ [][ClearNext]_vars

\* ---- formatPhoneNumber on its own ----
programVars == <<sessionVars, queueVars, nextId, queuingStatus, lastOp, cleared>>

\* the digit strings tried, and the ways they are written
DigitStrings == UNION {[1..k -> {"9", "1"}] : k \in 0..MaxDigits}
Styles == {"plain", "plus", "dashed", "bracketed"}
Written(d, style) ==
  CASE style = "plain" -> d
    [] style = "plus" -> <<"+">> \o d
    [] style = "dashed" -> IF Len(d) > 2
                           THEN SubSeq(d, 1, 2) \o <<"-">> \o SubSeq(d, 3, Len(d))
                           ELSE d \o <<"-">>
    [] style = "bracketed" -> <<"(">> \o d \o <<")", " ">>
PhoneInputs == {Written(d, style) : d \in DigitStrings, style \in Styles}

PhoneInit ==
  /\ ProgramInit
  /\ \E x \in PhoneInputs :
       call = [fn |-> "formatPhoneNumber", pc |-> "input", in |-> x,
               out |-> <<>>, again |-> <<>>]

\* line 47: formatPhoneNumber(messageData.number)
FormatCall ==
  /\ call.pc = "input"
  /\ call' = [call EXCEPT !.pc = "formatted", !.out = formatPhoneNumber(call.in)]
  /\ UNCHANGED programVars

\* the result is formatted again
FormatAgain ==
  /\ call.pc = "formatted"
  /\ call' = [call EXCEPT !.pc = "reformatted", !.again = formatPhoneNumber(call.out)]
  /\ UNCHANGED programVars

PhoneNext == FormatCall \/ FormatAgain
PhoneSpec == PhoneInit /\ [][PhoneNext]_vars

\* ---- formatEventMessage on its own ----
\* a field of the event that holds a number: <<>> when the field is absent
DayValues == {<<>>} \cup {<<n>> : n \in 0..MaxDays}
Venues == {Undefined, "", "   ", "Hall"}
Events == [totalDays : DayValues, total_days : DayValues, venue : Venues]

\* JavaScript truthiness of such a field, a || b, and v > 1 (undefined > 1 is false)
Truthy(v) == v # <<>> /\ v[1] # 0
JsOr(a, b) == IF Truthy(a) THEN a ELSE b
GreaterThanOne(v) == v # <<>> /\ v[1] > 1
Trim(str) == IF str = "   " THEN "" ELSE str

\* line 470: event.venue && event.venue.trim() !== ''
HasVenue(event) == event.venue # Undefined /\ event.venue # "" /\ Trim(event.venue) # ""

\* line 478: the condition of the duration line
HasDuration(event) ==
  /\ Truthy(JsOr(event.totalDays, event.total_days))
  /\ GreaterThanOne(event.totalDays) \/ GreaterThanOne(event.total_days)

\* lines 463-487: the lines of the message that depend on these fields
formatEventMessage(event) ==
  <<[label |-> "EVENT ASSIGNMENT", value |-> <<>>]>>
  \o (IF HasVenue(event) THEN <<[label |-> "Venue", value |-> <<>>]>> ELSE <<>>)
  \o (IF HasDuration(event)
      THEN <<[label |-> "Event Duration",
              value |-> JsOr(event.totalDays, event.total_days)]>>
      ELSE <<>>)
  \o <<[label |-> "Thank you", value |-> <<>>]>>

RenderInit ==
  /\ ProgramInit
  /\ \E event \in Events :
       call = [fn |-> "formatEventMessage", pc |-> "input", event |-> event,
               message |-> <<>>]

\* line 308: formatEventMessage(event, staff)
RenderCall ==
  /\ call.pc = "input"
  /\ call' = [call EXCEPT !.pc = "rendered", !.message = formatEventMessage(call.event)]
  /\ UNCHANGED programVars

RenderNext == RenderCall
RenderSpec == RenderInit /\ [][RenderNext]_vars

\* ---- the session under observation ----
Op(kind, src) == [kind |-> kind, src |-> src, status |-> 0]

\* lines 225-228: the response of POST /api/reset, whatever client.destroy() did
ResetStatusFailing(destroyed) == IF destroyed THEN 200 ELSE 500
ResetStatus(destroyed) == 200

\* a request with one valid entry
OneMessage == <<[number |-> PhoneA, message |-> Text]>>

\* the reinitialization timer fires, as the observer sees it
ObservedInitializeClient ==
  /\ InitializeClient
  /\ lastOp' = Op("initializeClient", "timer")
  /\ UNCHANGED <<cleared, call>>

\* Every session operation, recorded in lastOp as it runs, beside a queue that is
\* fed one valid message at a time and drained. The queuing handlers left out
\* here, and clear-queue, write no session variable.
SessionNext ==
  \/ \E src \in {"client", "stale"} :
       OnQr(src) /\ lastOp' = Op("qr", src) /\ UNCHANGED <<cleared, call>>
  \/ \E err \in BOOLEAN :
       QrRendered(err) /\ lastOp' = Op("qr_rendered", "callback")
                       /\ UNCHANGED <<cleared, call>>
  \/ \E src \in {"client", "stale"} :
       OnReady(src) /\ lastOp' = Op("ready", src) /\ UNCHANGED <<cleared, call>>
  \/ \E src \in {"client", "stale"} :
       OnAuthenticated(src) /\ lastOp' = Op("authenticated", src)
                            /\ UNCHANGED <<cleared, call>>
  \/ \E src \in {"client", "stale"} :
       OnAuthFailure(src) /\ lastOp' = Op("auth_failure", src)
                          /\ UNCHANGED <<cleared, call>>
  \/ \E src \in {"client", "stale"} :
       OnDisconnected(src) /\ lastOp' = Op("disconnected", src)
                           /\ UNCHANGED <<cleared, call>>
  \/ \E destroyed \in BOOLEAN :
       PostReset(destroyed)
       /\ lastOp' = [kind |-> IF destroyed THEN "reset" ELSE "reset_destroy_threw",
                     src |-> "http", status |-> ResetStatus(destroyed)]
       /\ UNCHANGED <<cleared, call>>
  \/ ObservedInitializeClient
  \/ PostSendBulkMessages(OneMessage) /\ UNCHANGED obsVars
  \/ \E d \in 1..MaxDrains : SendResolved(d) /\ UNCHANGED obsVars
  \/ \E d \in 1..MaxDrains : SendRejected(d) /\ UNCHANGED obsVars
  \/ \E d \in 1..MaxDrains : PacingElapsed(d) /\ UNCHANGED obsVars
  \/ CronTick /\ UNCHANGED obsVars

SessionSpec == Init /\ [][SessionNext]_vars

\* the reinitialization timers fire
SessionLiveSpec == SessionSpec /\ WF_vars(ObservedInitializeClient)

\* The sends and timers of the drain return, and the cron tick keeps firing.
LiveSpec ==
  /\ QueueSpec
  /\ WF_vars(CronTick /\ UNCHANGED obsVars)
  /\ \A d \in 1..MaxDrains :
       /\ WF_vars((SendResolved(d) \/ SendRejected(d)) /\ UNCHANGED obsVars)
       /\ WF_vars(PacingElapsed(d) /\ UNCHANGED obsVars)

\* The same for the queue with its cleared entries on record.
ClearLiveSpec ==
  /\ ClearSpec
  /\ WF_vars(CronTick /\ UNCHANGED obsVars)
  /\ \A d \in 1..MaxDrains :
       /\ WF_vars((SendResolved(d) \/ SendRejected(d)) /\ UNCHANGED obsVars)
       /\ WF_vars(PacingElapsed(d) /\ UNCHANGED obsVars)

\* ---- properties ----
Active == {d \in 1..MaxDrains : drains[d].pc # "idle"}
QueueIds == {messageQueue[i].id : i \in 1..Len(messageQueue)}
SentIds == {sendLog[i].id : i \in 1..Len(sendLog)}
InQueue(id) == id \in QueueIds

\* C1: at most one execution of the drain loop is active at any instant, whatever
\* triggers (enqueue requests, cron ticks) arrive while it is suspended.
C1_OneDrain == Cardinality(Active) <= 1

\* a third message was queued by a later request while the drain was still
\* suspended in the send of the first
C1_Witness ==
  /\ drains[1].pc = "sending"
  /\ drains[1].msg.id = 1
  /\ InQueue(3)

\* C2: messages are handed to client.sendMessage in the order they were appended
\* (ids are given in append order), and never while another send is in flight.
C2_Fifo ==
  /\ \A i, j \in 1..Len(sendLog) : i < j => sendLog[i].id < sendLog[j].id
  /\ \A i, j \in 1..Len(messageQueue) : i < j => messageQueue[i].id < messageQueue[j].id
  /\ \A i \in 1..Len(sendLog), j \in 1..Len(messageQueue) :
        sendLog[i].id < messageQueue[j].id
  /\ Cardinality({d \in 1..MaxDrains : drains[d].pc = "sending"}) <= 1

\* two messages were sent in order and a third, queued meanwhile, waits during
\* the pacing wait
C2_Witness ==
  /\ drains[1].pc = "pacing"
  /\ Len(sendLog) = 2
  /\ Len(messageQueue) = 1

\* C3: whenever the drain loop calls client.sendMessage, connectionStatus is 'ready'.
C3_SendOnlyInReadyState ==
  [][Len(sendLog') > Len(sendLog) => connectionStatus = "ready"]_vars

\* C4: every message gets at most one send attempt: it is off the queue before the
\* attempt and is never put back, also when the attempt fails.
C4_AtMostOnce ==
  /\ \A i, j \in 1..Len(sendLog) : sendLog[i].id = sendLog[j].id => i = j
  /\ SentIds \cap QueueIds = {}
  /\ \A d \in Active : ~InQueue(drains[d].msg.id)

\* a send was rejected and the drain went on to the next message
C4_Witness == \E d \in 1..MaxDrains : drains[d].burst = 2 /\ Len(messageQueue) > 0

\* C5: no two send attempts of one drain without a pacing wait between them.
C5_PacedSends == \A d \in 1..MaxDrains : drains[d].burst <= 1

\* C6: when no drain execution is in progress, isProcessingQueue is false.
C6_FlagCleared == Active = {} => ~isProcessingQueue

\* a drain has exited because readiness was lost, leaving entries in the queue
C6_Witness ==
  /\ Active = {}
  /\ ~isClientReady
  /\ Len(sendLog) > 0
  /\ Len(messageQueue) > 0

\* C7: once readiness is revoked, no send is initiated while it is revoked; the
\* revoking step and every step of the drain leave the queue as it is; a drain
\* that checks its loop condition exits.
C7_RevokedKeepsQueue ==
  [][/\ ~isClientReady => sendLog' = sendLog
     /\ (isClientReady /\ ~isClientReady') =>
           (messageQueue' = messageQueue /\ sendLog' = sendLog)
     /\ (~isClientReady /\ drains' # drains) =>
           /\ messageQueue' = messageQueue
           /\ \A d \in 1..MaxDrains :
                drains'[d] # drains[d] =>
                  \/ drains[d].pc = "sending" /\ drains'[d].pc = "pacing"
                  \/ drains'[d].pc = "idle" /\ ~isProcessingQueue'
    ]_vars

\* readiness was revoked after the first of three entries was sent: the drain is
\* in its pacing wait and the other two are still queued
C7_Witness ==
  /\ ~isClientReady
  /\ drains[1].pc = "pacing"
  /\ Len(sendLog) = 1
  /\ Len(messageQueue) = 2

\* C8: an entry that is in the queue while the session is ready is eventually
\* taken off the queue (by the drain, for its send attempt, or by clear-queue),
\* unless the session stops being ready.
C8_EventuallyAttempted ==
  \A id \in 1..MaxMsgs :
    (InQueue(id) /\ isClientReady) ~> (~InQueue(id) \/ ~isClientReady)

\* the session is ready again, entries were left behind and no drain is running:
\* only the cron tick can start one
C8_Witness ==
  /\ isClientReady
  /\ Len(messageQueue) > 0
  /\ Active = {}
  /\ ~isProcessingQueue

\* C9: while the client is not ready a queuing request is answered with an error,
\* nothing is appended and no drain starts.
C9_RefusedWhenNotReady ==
  [][~isClientReady =>
       /\ queuingStatus' \in {queuingStatus, 400, 503}
       /\ nextId' = nextId
       /\ Len(messageQueue') <= Len(messageQueue)
       /\ \A d \in 1..MaxDrains : drains[d].pc = "idle" => drains'[d].pc = "idle"
    ]_vars

\* a queuing request was refused with 503 while entries were queued
C9_Witness ==
  /\ ~isClientReady
  /\ queuingStatus = 503
  /\ Len(messageQueue) > 0

\* C10: no entry without a recipient number or without a body is ever in the queue.
C10_OnlyValidEntries ==
  \A i \in 1..Len(messageQueue) :
    messageQueue[i].number # NoNumber /\ messageQueue[i].message # Undefined
\* C11: a disconnect event leaves connectionStatus 'disconnected' and the client
\* not ready with a reconnection timer pending, no session operation touches the
\* queue or the drain, and the timer's initializeClient eventually runs.
C11_DisconnectReconnects ==
  /\ [](lastOp.kind = "disconnected" =>
          /\ connectionStatus = "disconnected"
          /\ ~isClientReady
          /\ reinitTimers > 0)
  /\ [][lastOp' # lastOp =>
          /\ messageQueue' = messageQueue
          /\ sendLog' = sendLog
          /\ drains' = drains
          /\ (lastOp'.kind = "disconnected" => reinitTimers' = reinitTimers + 1)
       ]_vars
  /\ (lastOp.kind = "disconnected") ~> (lastOp.kind = "initializeClient")

\* the disconnect arrived while a drain was sending and entries were queued
C11_Witness ==
  /\ lastOp.kind = "disconnected"
  /\ drains[1].pc = "sending"
  /\ Len(messageQueue) > 0

\* C12: a reset leaves connectionStatus 'resetting', the client not ready and
\* qrCodeData null, schedules a reinitialization and answers success, also when
\* client.destroy() throws.
C12_ResetReinitializes ==
  /\ [](lastOp.kind \in {"reset", "reset_destroy_threw"} =>
          /\ connectionStatus = "resetting"
          /\ ~isClientReady
          /\ qrCodeData = Null
          /\ reinitTimers > 0
          /\ lastOp.status = 200)
  /\ [][(lastOp' # lastOp /\ lastOp'.kind \in {"reset", "reset_destroy_threw"}) =>
          reinitTimers' = reinitTimers + 1]_vars

\* client.destroy() threw during a reset that found a QR code and a ready client
C12_Witness ==
  /\ lastOp.kind = "reset_destroy_threw"
  /\ clientLive
  /\ reinitTimers > 0
\* C13: with s the digits of the input, the result is s when s has fewer than 10
\* digits and "91" followed by the last 10 digits of s otherwise: "91" + d for a
\* 10-digit d, and s itself for a 12-digit s that starts with "91".
C13_NonDigits == {"+", "-", "(", ")", " "}
C13_KeepDigit(c) == c \notin C13_NonDigits
C13_Rule ==
  call.pc \in {"formatted", "reformatted"} =>
    LET s == SelectSeq(call.in, C13_KeepDigit)
        n == Len(s)
    IN /\ n < 10 => call.out = s
       /\ n >= 10 => /\ Len(call.out) = 12
                     /\ call.out = <<"9", "1">> \o SubSeq(s, n - 9, n)
       /\ n = 10 => call.out = <<"9", "1">> \o s
       /\ (n = 12 /\ s[1] = "9" /\ s[2] = "1") => call.out = s

\* a number of 13 digits written with non-digit characters has been formatted
C13_Witness ==
  /\ call.pc = "formatted"
  /\ Len(call.in) > 13
  /\ Len(SelectSeq(call.in, C13_KeepDigit)) = 13

\* C14: formatting the result again changes nothing, for every input.
C14_Idempotent == call.pc = "reformatted" => call.again = call.out

\* a 12-digit number that starts with "91" has been formatted twice
C14_Witness ==
  /\ call.pc = "reformatted"
  /\ Len(call.in) = 12
  /\ call.in[1] = "9" /\ call.in[2] = "1"
  /\ call.again = call.in
\* C15: a clear-queue request leaves the drain and its in-flight entry alone and
\* empties the queue; an entry it removed is never sent, queued or in flight
\* afterwards; a drain that checks its loop condition on an empty queue exits
\* with isProcessingQueue false; sends stay in append order, one attempt each.
C15_ClearMidDrain ==
  /\ [](/\ cleared \cap SentIds = {}
        /\ cleared \cap QueueIds = {}
        /\ \A d \in Active : drains[d].msg.id \notin cleared
        /\ \A i, j \in 1..Len(sendLog) : i < j => sendLog[i].id < sendLog[j].id)
  /\ [][/\ cleared' # cleared =>
             /\ messageQueue' = <<>>
             /\ drains' = drains
             /\ sendLog' = sendLog
             /\ isProcessingQueue' = isProcessingQueue
        /\ \A d \in 1..MaxDrains :
             (/\ messageQueue = <<>>
              /\ drains'[d] # drains[d]
              /\ ~(drains[d].pc = "sending" /\ drains'[d].pc = "pacing")
              /\ drains[d].pc # "idle") =>
                 /\ drains'[d].pc = "idle"
                 /\ ~isProcessingQueue'
                 /\ sendLog' = sendLog
       ]_vars

\* the second entry was cleared while the first was in flight; the first got its
\* attempt and an entry queued after the clear was sent next
C15_Witness ==
  /\ cleared = {2}
  /\ Len(sendLog) = 2
  /\ sendLog[1].id = 1
  /\ sendLog[2].id = 3
\* C16: a drain stops only when the queue is empty (or the session is no longer
\* ready), with isProcessingQueue false; after a rejected send it goes on with
\* the next entry that has a number; no entry is attempted twice; an entry with
\* a number that is queued is eventually handed to client.sendMessage unless it
\* is cleared or readiness is lost; a running drain eventually stops.
C16_Sendable(id) ==
  \E i \in 1..Len(messageQueue) :
    messageQueue[i].id = id /\ ~FormatThrows(messageQueue[i])
C16_FailureDoesNotAbort ==
  /\ [](\A i, j \in 1..Len(sendLog) : sendLog[i].id = sendLog[j].id => i = j)
  /\ [][\A d \in 1..MaxDrains :
          /\ (drains[d].pc # "idle" /\ drains'[d].pc = "idle") =>
                /\ messageQueue' = <<>> \/ ~isClientReady
                /\ ~isProcessingQueue'
          /\ (/\ drains[d].pc = "sending"
              /\ drains'[d] # drains[d]
              /\ drains'[d].pc # "pacing"
              /\ isClientReady
              /\ \E id \in QueueIds : C16_Sendable(id)) =>
                /\ drains'[d].pc = "sending"
                /\ C16_Sendable(drains'[d].msg.id)
                /\ \A id \in QueueIds :
                     (C16_Sendable(id) /\ id # drains'[d].msg.id) =>
                        (id > drains'[d].msg.id /\ id \in {messageQueue'[i].id : i \in 1..Len(messageQueue')})
                /\ Len(sendLog') = Len(sendLog) + 1
                /\ sendLog'[Len(sendLog')].id = drains'[d].msg.id
       ]_vars
  /\ \A id \in 1..MaxMsgs :
       C16_Sendable(id) ~> (id \in SentIds \/ id \in cleared \/ ~isClientReady)
  /\ (Active # {}) ~>
       (Active = {} /\ ~isProcessingQueue /\ (messageQueue = <<>> \/ ~isClientReady))

\* two sends in a row were rejected and the drain went on: the third entry is in
\* flight and the queue is empty
C16_Witness ==
  /\ \E d \in 1..MaxDrains : drains[d].burst = 3
  /\ messageQueue = <<>>
  /\ Len(sendLog) = 3
\* C17: the message has the event-duration line exactly when the value it would
\* show, the first non-empty of totalDays and total_days, is greater than 1; a
\* duration line never shows 0 or 1.
C17_Shown(event) ==
  IF event.totalDays # <<>> /\ event.totalDays # <<0>> THEN event.totalDays
  ELSE event.total_days
C17_DurationLines ==
  {i \in 1..Len(call.message) : call.message[i].label = "Event Duration"}
C17_DurationOnlyAboveOne ==
  call.pc = "rendered" =>
    /\ C17_DurationLines # {} <=>
         (C17_Shown(call.event) # <<>> /\ C17_Shown(call.event)[1] > 1)
    /\ \A i \in C17_DurationLines : call.message[i].value[1] > 1
\* C18: isClientReady is true exactly when connectionStatus is 'ready'.
C18_ReadyIffStatusReady == isClientReady <=> connectionStatus = "ready"

\* C19: whenever connectionStatus is 'ready', qrCodeData is null.
C19_NoQrWhenReady == connectionStatus = "ready" => qrCodeData = Null

\* C20: at most one reinitialization is pending, and every session event that is
\* handled comes from the instance `client` refers to.
C20_OneSessionDrivesState ==
  /\ reinitTimers <= 1
  /\ lastOp.kind \in {"qr", "ready", "authenticated", "auth_failure", "disconnected"} =>
       lastOp.src = "client"
====
